---- MODULE Spec2Model ----
(***************************************************************************)
(* The HNSW index of src/hnsw.py (class HNSW) as a state machine: one      *)
(* action per public call (add_node, delete_node), each covering the whole *)
(* handler.  Python sets are iterated in an order the program does not     *)
(* control, so every operator that walks a set yields the set of results   *)
(* that some iteration order produces.                                     *)
(***************************************************************************)
EXTENDS Integers, Sequences, FiniteSets, TLC

\* ---------------------------------------------------------------- bounds
\* Largest layer the layer draw of add_node may return (the draw is unbounded).
MaxLayer == 1
\* Largest layer drawn, and number of add_node / delete_node calls, in a
\* behaviour that builds an index of three layers.
MaxDeep == 2
MaxDeepCalls == 6
\* Number of add_node / delete_node calls in one behaviour.
MaxCalls == 5
\* Number of add_node / delete_node calls in a behaviour that also searches.
MaxBuilt == 3
\* Largest k and largest explicit ef handed to knn_search.
MaxK == 2
MaxEf == 2
\* Number of bits of a word of the snapshot file (I_SIZE bytes in the file).
WordBits == 3
\* Number of add_node / delete_node calls in a behaviour that ends with a dump
\* and loads of the file.
MaxDumped == 4
\* Number of add_node / delete_node calls before a search or a dump whose
\* file is then altered, and the number of words of the longest such file.
MaxAltered == 2
MaxWords == 40
\* Largest M handed to a selection of neighbors called on its own.
MaxM == 2

\* ------------------------------------------------- construction parameters
\* HNSW.__init__: M, ef, Mmax, Mmax0.
M == 2
ef == 1
Mmax == 2
Mmax0 == 2

\* --------------------------------------------------------------- records
\* The record objects handed to the index.  Records 4 and 5 are two objects
\* with one id (node3 / node4 of the unit test); record 6 carries another
\* distance algorithm.
IdOf == <<1, 2, 3, 4, 4, 5>>
Records == 1..Len(IdOf)
None == 0
NoLayer == -1
\* The layers a record may have, and the layers drawn where no index of three
\* layers is built.
Layers == 0..MaxDeep
Drawn == 0..MaxLayer

\* The distance algorithm of each record and of the index.
IndexAlgorithm == "tlsh"
AlgorithmOf == [r \in Records |-> IF r = 6 THEN "ssdeep" ELSE "tlsh"]

\* Position of every id in the plane; the raw difference of two ids is their
\* taxicab distance (no two ids are equally far from a third).
PosX == <<0, 8, 1, 9, 20>>
PosY == <<0, 1, 5, 7, 20>>
MaxScore == 100
Abs(v) == IF v < 0 THEN -v ELSE v
Diff(i, j) == Abs(PosX[i] - PosX[j]) + Abs(PosY[i] - PosY[j])

VARIABLES
    spatial,      \* is_spatial() of the index's distance algorithm
    heuristic,    \* HNSW._heuristic
    extend_candidates,  \* HNSW._extend_candidates
    keep_pruned_conns,  \* HNSW._keep_pruned_conns
    layer,        \* layer[r]: the layer of record r (NoLayer before set_max_layer)
    neighbors,    \* neighbors[r][L]: the layer-L neighbor set of record r
    enter_point,  \* HNSW._enter_point (None when unset)
    nodes,        \* HNSW._nodes: layer -> list of records
    live,         \* records whose add_node returned True and that no delete_node removed
    last,         \* the last call: operation, record, outcome
    calls,        \* number of add_node / delete_node calls made
    found,        \* what the last call returned, when it was a search, and the pops
                  \* of its layer-0 search
    sweep,        \* the single-layer searches of the insertion sweep of the last add_node
    file,         \* the snapshot file last written by dump (possibly altered since)
    loaded,       \* what the last load made of the file
    selection     \* the last selection of neighbors called on its own

config == <<spatial, heuristic, extend_candidates, keep_pruned_conns>>
vars == <<config, layer, neighbors, enter_point, nodes, live, last, calls, found, sweep,
          file, loaded, selection>>

\* ------------------------------------------------------ record operations
\* calculate_similarity: the score of two records under the index's algorithm.
calculate_similarity(a, b) ==
    IF spatial THEN Diff(IdOf[a], IdOf[b]) ELSE MaxScore - Diff(IdOf[a], IdOf[b])

\* n2_closer_than_n1: n2 has the strictly better score relative to q.
n2_closer_than_n1(q, n1, n2) ==
    IF spatial THEN calculate_similarity(q, n2) < calculate_similarity(q, n1)
          ELSE calculate_similarity(q, n2) > calculate_similarity(q, n1)

\* get_neighbors_at_layer.
get_neighbors_at_layer(nb, r, L) == nb[r][L]

\* A record whose layer is assigned anew by every call.
set_max_layer_never_fails(lay, r, l) == FALSE
\* set_max_layer is single-assignment: a second call with another value fails.
set_max_layer_fails(lay, r, l) == lay[r] \notin {NoLayer, l}
set_max_layer(lay, r, l) == [lay EXCEPT ![r] = l]

\* add_neighbor(L, other) on record r fails when L is above the layer of r.
add_neighbor_fails(lay, r, L) == L > lay[r]

\* --------------------------------------------------- nearest and furthest
\* _find_furthest_element: the elements min()/max() may return (the first
\* extreme element in iteration order).
_find_furthest_element(q, S) ==
    IF ~spatial
    THEN {n \in S : \A m \in S : calculate_similarity(q, n) <= calculate_similarity(q, m)}
    ELSE {n \in S : \A m \in S : calculate_similarity(q, n) >= calculate_similarity(q, m)}

\* _find_nearest_element.
_find_nearest_element(q, S) ==
    IF ~spatial
    THEN {n \in S : \A m \in S : calculate_similarity(q, n) >= calculate_similarity(q, m)}
    ELSE {n \in S : \A m \in S : calculate_similarity(q, n) <= calculate_similarity(q, m)}

\* ----------------------------------------------------------- search layer
\* The sign given to the heap keys of _search_layer_knn.
queue_multiplier == IF ~spatial THEN 1 ELSE -1

\* heapq.heappop on the candidates: an entry with the smallest key.
heappop(q, C) ==
    {c \in C : \A d \in C :
        calculate_similarity(c, q) * queue_multiplier
            <= calculate_similarity(d, q) * queue_multiplier}

\* A search that marks no neighbor as visited.
visit_nothing(V, n) == V
\* visited_elements.add(neighbor), line 318.
visit(V, n) == V \cup {n}

\* The number of times each record was pushed on the candidates heap: none
\* yet, and one more push of record n.
NoPush == [r \in Records |-> 0]
Push(run, n) == [run EXCEPT !.pushed[n] = @ + 1]

RECURSIVE SearchLoop(_, _, _, _, _, _, _)
RECURSIVE NeighborLoop(_, _, _, _, _, _, _, _)

\* The inner for loop of _search_layer_knn over the neighbors still to visit
\* (todo), in any order; then back to the while loop.
NeighborLoop(nb, q, efs, L, C, W, V, todo) ==
    IF todo = {} THEN SearchLoop(nb, q, efs, L, C, W, V)
    ELSE UNION {
        LET furthest == CHOOSE f \in _find_furthest_element(q, W) : TRUE
            rest == todo \ {n}
        IN  IF n2_closer_than_n1(q, furthest, n) \/ Cardinality(W) < efs
            THEN LET W1 == W \cup {n}
                 IN  IF Cardinality(W1) > efs
                     THEN UNION { {Push(run, n) :
                                    run \in NeighborLoop(nb, q, efs, L, C \cup {n}, W1 \ {f},
                                                         visit(V, n), rest)}
                                  : f \in _find_furthest_element(q, W1) }
                     ELSE {Push(run, n) :
                            run \in NeighborLoop(nb, q, efs, L, C \cup {n}, W1,
                                                 visit(V, n), rest)}
            ELSE NeighborLoop(nb, q, efs, L, C, W, visit(V, n), rest)
        : n \in todo }

\* The while loop of _search_layer_knn: C the candidates heap, W the nearest
\* neighbors found, V the visited elements.  Yields every run it may make: the
\* set W it returns, its pops, each pop being the heap as line 303 found it
\* and the candidate heappop took from it, and its pushes (lines 293, 325).
SearchLoop(nb, q, efs, L, C, W, V) ==
    IF C = {} THEN {[W |-> W, pops |-> {}, pushed |-> NoPush]}
    ELSE UNION {
        LET furthest == CHOOSE f \in _find_furthest_element(q, W) : TRUE
            pop == [queue |-> C, popped |-> closest]
        IN  IF n2_closer_than_n1(q, closest, furthest)
            THEN {[W |-> W, pops |-> {pop}, pushed |-> NoPush]}
            ELSE {[run EXCEPT !.pops = @ \cup {pop}]
                  : run \in NeighborLoop(nb, q, efs, L, C \ {closest}, W, V,
                                         get_neighbors_at_layer(nb, closest, L) \ V)}
        : closest \in heappop(q, C) }

\* The runs of _search_layer_knn(query_node, enter_points, ef, layer); lines
\* 291-293 push every enter point once.
_search_layer_knn_runs(nb, q, eps, efs, L) ==
    {[run EXCEPT !.pushed = [r \in Records |-> @[r] + (IF r \in eps THEN 1 ELSE 0)]]
        : run \in SearchLoop(nb, q, efs, L, eps, eps, eps)}

\* _search_layer_knn(query_node, enter_points, ef, layer): the sets returned.
_search_layer_knn(nb, q, eps, efs, L) ==
    {run.W : run \in _search_layer_knn_runs(nb, q, eps, efs, L)}

\* ------------------------------------------------------------- descending
RECURSIVE DescendLoop(_, _, _, _, _)
\* The for loop of _descend_to_layer, from layer L down to target + 1; ep is
\* the loop's enter_point.  Yields every enter point it may return.
DescendLoop(nb, q, ep, L, target) ==
    IF L <= target THEN {ep}
    ELSE UNION {
        IF Cardinality(W) > 0 /\ IdOf[ep] # IdOf[q]
        THEN UNION { DescendLoop(nb, q, n, L - 1, target)
                     : n \in _find_nearest_element(q, W) }
        ELSE DescendLoop(nb, q, ep, L - 1, target)
        : W \in _search_layer_knn(nb, q, {ep}, 1, L) }

\* _descend_to_layer(query_node, layer).
_descend_to_layer(nb, lay, ep, q, target) == DescendLoop(nb, q, ep, lay[ep], target)

\* -------------------------------------------------------------- selection
\* A slip in the slices of lines 437-440: the last M of the sorted list for a
\* spatial measure, the first M for a similarity.
_select_neighbors_simple_swapped(base, cands, m) ==
    LET n == IF m < Cardinality(cands) THEN m ELSE Cardinality(cands)
    IN  IF spatial
        THEN IF m = 0 THEN {cands}
             ELSE {S \in SUBSET cands :
                    /\ Cardinality(S) = n
                    /\ \A s \in S, t \in cands \ S :
                         calculate_similarity(s, base) >= calculate_similarity(t, base)}
        ELSE {S \in SUBSET cands :
                /\ Cardinality(S) = n
                /\ \A s \in S, t \in cands \ S :
                     calculate_similarity(s, base) <= calculate_similarity(t, base)}

\* _select_neighbors_simple: sorted() by score, then the first M (spatial) or
\* the last M (similarity) of the list; equal scores keep iteration order.
_select_neighbors_simple(base, cands, m) ==
    IF ~spatial
    THEN IF m = 0 THEN {cands}
         ELSE {S \in SUBSET cands :
                /\ Cardinality(S) = (IF m < Cardinality(cands) THEN m ELSE Cardinality(cands))
                /\ \A s \in S, t \in cands \ S :
                     calculate_similarity(s, base) >= calculate_similarity(t, base)}
    ELSE {S \in SUBSET cands :
            /\ Cardinality(S) = (IF m < Cardinality(cands) THEN m ELSE Cardinality(cands))
            /\ \A s \in S, t \in cands \ S :
                 calculate_similarity(s, base) <= calculate_similarity(t, base)}

RECURSIVE HeuristicLoop(_, _, _, _, _)
\* The first while loop of _select_neighbors_heuristics (lines 395-412): Wk
\* the working candidates, R the result, D the discarded set.
HeuristicLoop(base, m, Wk, R, D) ==
    IF ~(Cardinality(Wk) > 0 /\ Cardinality(R) < m) THEN {[w |-> Wk, r |-> R, d |-> D]}
    ELSE UNION {
        IF Cardinality(R) = 0
        THEN HeuristicLoop(base, m, Wk \ {e}, R \cup {e}, D)
        ELSE LET nearestR == CHOOSE n \in _find_nearest_element(base, R) : TRUE
             IN  IF n2_closer_than_n1(base, nearestR, e)
                 THEN HeuristicLoop(base, m, Wk \ {e}, R \cup {e}, D)
                 ELSE HeuristicLoop(base, m, Wk \ {e}, R, D \cup {e})
        : e \in _find_nearest_element(base, Wk) }

RECURSIVE KeepPrunedLoop(_, _, _, _)
\* The second while loop (lines 416-420): discarded elements, nearest first,
\* fill the result up to M.
KeepPrunedLoop(base, m, R, D) ==
    IF ~(Cardinality(D) > 0 /\ Cardinality(R) < m) THEN {R}
    ELSE UNION { KeepPrunedLoop(base, m, R \cup {e}, D \ {e})
                 : e \in _find_nearest_element(base, D) }

\* _select_neighbors_heuristics.  _working_candidates is the caller's set
\* itself (line 383): c is that set as the call leaves it.  Extending it
\* while the for loop of line 387 iterates it raises RuntimeError (set changed
\* size during iteration) as soon as one candidate has a neighbor outside it.
_select_neighbors_heuristics(nb, base, cands, m, L, extend, keep_pruned) ==
    LET growing == {c \in cands : get_neighbors_at_layer(nb, c, L) \ cands # {}}
    IN  IF extend /\ growing # {}
        THEN {[r |-> {}, c |-> cands \cup get_neighbors_at_layer(nb, c0, L), err |-> "RuntimeError"]
              : c0 \in growing}
        ELSE UNION {
            IF keep_pruned
            THEN {[r |-> R, c |-> h.w, err |-> "none"] : R \in KeepPrunedLoop(base, m, h.r, h.d)}
            ELSE {[r |-> h.r, c |-> h.w, err |-> "none"]}
            : h \in HeuristicLoop(base, m, cands, {}, {}) }

\* _select_neighbors: the selection (r), the candidate collection as the call
\* leaves it (c) and the exception raised, if any (err).
_select_neighbors(nb, base, cands, m, L) ==
    IF ~heuristic
    THEN {[r |-> S, c |-> cands, err |-> "none"] : S \in _select_neighbors_simple(base, cands, m)}
    ELSE _select_neighbors_heuristics(nb, base, cands, m, L, extend_candidates, keep_pruned_conns)

\* A check that finds no id in any list.
_already_exists_nowhere(q, node_list) == FALSE
\* _already_exists(query_node, node_list).
_already_exists(q, node_list) == \E n \in node_list : IdOf[n] = IdOf[q]

\* ----------------------------------------------------------------- shrink
\* _shrink_nodes(nodes, layer): the first node over its cap makes the call
\* evaluate the unbound name `node` (line 234): NameError, nothing replaced.
_shrink_nodes(nb, S, L) ==
    LET mmax == IF L = 0 THEN Mmax0 ELSE Mmax
    IN  IF \E n \in S : Cardinality(get_neighbors_at_layer(nb, n, L)) > mmax
        THEN "NameError" ELSE "none"

\* -------------------------------------------------------- insertion sweep
RECURSIVE UnlinkAll(_, _, _, _)
\* Lines 256-258: new_node is removed from the sets of its neighbors at the
\* layers l..top (its own sets stay as they are).
UnlinkAll(nb, x, l, top) ==
    IF l > top THEN nb
    ELSE UnlinkAll([r \in Records |->
                      IF r \in nb[x][l] THEN [nb[r] EXCEPT ![l] = @ \ {x}] ELSE nb[r]],
                   x, l + 1, top)

\* Lines 262-264: new_node and each chosen neighbor are linked both ways.
LinkAll(nb, x, S, L) ==
    [r \in Records |->
        IF r = x THEN [nb[r] EXCEPT ![L] = @ \cup S]
        ELSE IF r \in S THEN [nb[r] EXCEPT ![L] = @ \cup {x}]
        ELSE nb[r]]

\* One pass of the for loop: the layer, the enter_point list handed to
\* _search_layer_knn (line 249) and the set the search returned.
SweepCall(L, eps, W) == [layer |-> L, eps |-> eps, W |-> W]

RECURSIVE InsertLoop(_, _, _, _, _)
\* The for loop of _insert_node_to_layers from layer L down to 0; eps is the
\* enter_point list.  Yields every (neighbor sets, outcome) it may end with,
\* and with each the searches made (sweep), first layer first.
InsertLoop(nb, lay, x, eps, L) ==
    IF L < 0 THEN {[nb |-> nb, res |-> "none", sweep |-> <<>>]}
    ELSE UNION { UNION {
        IF sel.err # "none" THEN {[nb |-> nb, res |-> sel.err, sweep |-> <<SweepCall(L, eps, W)>>]}
        ELSE IF _already_exists(x, sel.c) \/ _already_exists(x, sel.r)
        THEN {[nb |-> IF lay[x] > L THEN UnlinkAll(nb, x, 0, lay[x]) ELSE nb,
               res |-> "NodeAlreadyExistsError", sweep |-> <<SweepCall(L, eps, W)>>]}
        ELSE IF \E n \in sel.r : add_neighbor_fails(lay, n, L)
        THEN {[nb |-> LinkAll(nb, x, done, L), res |-> "NodeLayerError",
               sweep |-> <<SweepCall(L, eps, W)>>]
              : done \in SUBSET {n \in sel.r : ~add_neighbor_fails(lay, n, L)}}
        ELSE LET nb1 == LinkAll(nb, x, sel.r, L)
             IN  IF _shrink_nodes(nb1, sel.r, L) # "none"
                 THEN {[nb |-> nb1, res |-> _shrink_nodes(nb1, sel.r, L),
                        sweep |-> <<SweepCall(L, eps, W)>>]}
                 ELSE {[o EXCEPT !.sweep = <<SweepCall(L, eps, W)>> \o @]
                       : o \in InsertLoop(nb1, lay, x, eps \cup sel.c, L - 1)}
        : sel \in _select_neighbors(nb, x, W, M, L) }
        : W \in _search_layer_knn(nb, x, eps, ef, L) }

\* _insert_node_to_layers(new_node, [enter_point]).
_insert_node_to_layers(nb, lay, ep, x, e) ==
    InsertLoop(nb, lay, x, {e}, IF lay[ep] < lay[x] THEN lay[ep] ELSE lay[x])

\* _insert_node(node): the node is appended to the list of its layer.
_insert_node(nds, lay, x) == [nds EXCEPT ![lay[x]] = Append(@, x)]

\* ---------------------------------------------------------------- actions
\* The value of found when the last call was not a successful search.
NoResult == [k |-> 0, ef |-> 0, W |-> {}, pops |-> {}, pushed |-> NoPush, result |-> <<>>]
\* No snapshot file written yet; no load made yet.
NoFile == [crc |-> <<>>, body |-> <<>>, altered |-> FALSE]
NoLoad == [res |-> "none", why |-> "none", given |-> "none", enter_point |-> None,
           layer |-> [r \in Records |-> NoLayer], links |-> {}, nodes |-> <<>>]

\* No selection of neighbors called on its own yet.
NoSelection == [candidates |-> {}, M |-> 0, layer |-> 0, left |-> {}, result |-> {},
                err |-> "none"]

\* HNSW.__init__: an empty index.
Empty ==
    /\ layer = [r \in Records |-> NoLayer]
    /\ neighbors = [r \in Records |-> [L \in Layers |-> {}]]
    /\ enter_point = None
    /\ nodes = [L \in Layers |-> <<>>]
    /\ live = {}
    /\ last = [op |-> "init", node |-> None, res |-> "none"]
    /\ calls = 0
    /\ found = NoResult
    /\ sweep = <<>>
    /\ file = NoFile
    /\ loaded = NoLoad
    /\ selection = NoSelection

\* The index as constructed with the default flags (heuristic=False,
\* extend_candidates=True, keep_pruned_conns=True), over either kind of
\* distance algorithm.
Init ==
    /\ spatial \in BOOLEAN
    /\ heuristic = FALSE
    /\ extend_candidates = TRUE
    /\ keep_pruned_conns = TRUE
    /\ Empty

\* The index as constructed with the heuristic selection switched on, with
\* any choice of its two flags.
InitHeuristic ==
    /\ spatial \in BOOLEAN
    /\ heuristic = TRUE
    /\ extend_candidates \in BOOLEAN
    /\ keep_pruned_conns \in BOOLEAN
    /\ Empty

\* Lines 141-142: the new node becomes the enter point when its layer is above
\* the layer Lep of the enter point.
promoted_enter_point(ep, Lep, x, l) == IF l > Lep THEN x ELSE ep

\* add_node(new_node) with l the layer drawn on line 121.
add_node(x, l) ==
    /\ calls' = calls + 1
    /\ found' = NoResult
    /\ UNCHANGED <<config, file, loaded>>
    /\ IF AlgorithmOf[x] # IndexAlgorithm
       THEN /\ last' = [op |-> "add_node", node |-> x, res |-> "HNSWUnmatchDistanceAlgorithmError"]
            /\ sweep' = <<>>
            /\ selection' = NoSelection
            /\ UNCHANGED <<layer, neighbors, enter_point, nodes, live>>
       ELSE IF set_max_layer_fails(layer, x, l)
       THEN /\ last' = [op |-> "add_node", node |-> x, res |-> "NodeLayerError"]
            /\ sweep' = <<>>
            /\ selection' = NoSelection
            /\ UNCHANGED <<layer, neighbors, enter_point, nodes, live>>
       ELSE LET lay == set_max_layer(layer, x, l)
            IN  /\ layer' = lay
                /\ IF enter_point = None
                   THEN /\ enter_point' = x
                        /\ nodes' = _insert_node(nodes, lay, x)
                        /\ live' = live \cup {x}
                        /\ last' = [op |-> "add_node", node |-> x, res |-> "True"]
                        /\ sweep' = <<>>
                        /\ selection' = NoSelection
                        /\ UNCHANGED neighbors
                   ELSE IF IdOf[enter_point] = IdOf[x]
                   THEN /\ last' = [op |-> "add_node", node |-> x, res |-> "NodeAlreadyExistsError"]
                        /\ sweep' = <<>>
                        /\ selection' = NoSelection
                        /\ UNCHANGED <<neighbors, enter_point, nodes, live>>
                   ELSE \E e \in _descend_to_layer(neighbors, lay, enter_point, x, l) :
                        \E out \in _insert_node_to_layers(neighbors, lay, enter_point, x, e) :
                            /\ neighbors' = out.nb
                            /\ sweep' = out.sweep
                            /\ selection' = NoSelection
                            /\ IF out.res = "none"
                               THEN /\ enter_point' = promoted_enter_point(enter_point, lay[enter_point], x, l)
                                    /\ nodes' = _insert_node(nodes, lay, x)
                                    /\ live' = live \cup {x}
                                    /\ last' = [op |-> "add_node", node |-> x, res |-> "True"]
                               ELSE /\ last' = [op |-> "add_node", node |-> x, res |-> out.res]
                                    /\ UNCHANGED <<enter_point, nodes, live>>

\* delete_node(node).  Past the two checks the call descends to layer 0 and
\* then reads self.search_layer_knn (line 186), an attribute class HNSW does
\* not have (its method is _search_layer_knn): AttributeError, before the
\* victim is looked up, the enter point replaced or any edge removed.
delete_node(x) ==
    /\ calls' = calls + 1
    /\ found' = NoResult
    /\ sweep' = <<>>
    /\ selection' = NoSelection
    /\ UNCHANGED <<config, layer, neighbors, enter_point, nodes, live, file, loaded>>
    /\ IF enter_point = None
       THEN last' = [op |-> "delete_node", node |-> x, res |-> "HNSWIsEmptyError"]
       ELSE IF AlgorithmOf[x] # IndexAlgorithm
       THEN last' = [op |-> "delete_node", node |-> x, res |-> "HNSWUnmatchDistanceAlgorithmError"]
       ELSE /\ _descend_to_layer(neighbors, layer, enter_point, x, 0) # {}
            /\ last' = [op |-> "delete_node", node |-> x, res |-> "AttributeError"]

RECURSIVE SortedByScore(_)
\* sorted(): the scores in ascending order (line 530).
SortedByScore(S) ==
    IF S = {} THEN <<>>
    ELSE LET least == CHOOSE s \in S : \A t \in S : s <= t
         IN  <<least>> \o SortedByScore(S \ {least})

\* Lines 530-538: the selected records, sorted by ascending score, are put
\* under their score in a dict, which keeps its keys in insertion order.  The
\* records of one key are given as a set (equal scores keep the order in which
\* the selection delivered them).
GroupByScore(q, R) ==
    LET keys == SortedByScore({calculate_similarity(n, q) : n \in R})
    IN  [i \in 1..Len(keys) |->
            [score |-> keys[i], records |-> {n \in R : calculate_similarity(n, q) = keys[i]}]]

\* The explicit ef arguments of knn_search (0 stands for the index's ef).
EfArgs == {0, MaxEf}

\* A slip in line 527: the selection is handed the layer-0 neighbor set of the
\* enter point itself (as _shrink_nodes hands a node's own set on line 234)
\* instead of the set the search built, so what the selection does to its
\* candidates is done to the graph.
knn_search_aliased(q, k, e) ==
    /\ sweep' = <<>>
    /\ selection' = NoSelection
    /\ UNCHANGED <<config, layer, enter_point, nodes, live, calls, file, loaded>>
    /\ IF AlgorithmOf[q] # IndexAlgorithm \/ enter_point = None
       THEN /\ last' = [op |-> "knn_search", node |-> q, res |-> "AttributeError"]
            /\ found' = NoResult
            /\ UNCHANGED neighbors
       ELSE \E ep \in _descend_to_layer(neighbors, layer, enter_point, q, 1) :
            \E sel \in _select_neighbors(neighbors, q, get_neighbors_at_layer(neighbors, ep, 0), k, 0) :
                /\ neighbors' = [neighbors EXCEPT ![ep][0] = sel.c]
                /\ last' = [op |-> "knn_search", node |-> q, res |-> "dict"]
                /\ found' = [k |-> k, ef |-> IF e = 0 THEN ef ELSE e,
                             W |-> get_neighbors_at_layer(neighbors, ep, 0), pops |-> {},
                             pushed |-> NoPush,
                             result |-> GroupByScore(q, sel.r)]

\* knn_search(query, k, ef).  The metric check comes first; there is no check
\* for an empty index, so _descend_to_layer reads get_layer of None (line 84).
knn_search(q, k, e) ==
    /\ sweep' = <<>>
    /\ selection' = NoSelection
    /\ UNCHANGED <<config, layer, neighbors, enter_point, nodes, live, calls, file, loaded>>
    /\ IF AlgorithmOf[q] # IndexAlgorithm
       THEN /\ last' = [op |-> "knn_search", node |-> q, res |-> "HNSWUnmatchDistanceAlgorithmError"]
            /\ found' = NoResult
       ELSE IF enter_point = None
       THEN /\ last' = [op |-> "knn_search", node |-> q, res |-> "AttributeError"]
            /\ found' = NoResult
       ELSE \E ep \in _descend_to_layer(neighbors, layer, enter_point, q, 1) :
            \E run \in _search_layer_knn_runs(neighbors, q, {ep}, IF e = 0 THEN ef ELSE e, 0) :
            \E sel \in _select_neighbors(neighbors, q, run.W, k, 0) :
                IF sel.err # "none"
                THEN /\ last' = [op |-> "knn_search", node |-> q, res |-> sel.err]
                     /\ found' = NoResult
                ELSE /\ last' = [op |-> "knn_search", node |-> q, res |-> "dict"]
                     /\ found' = [k |-> k, ef |-> IF e = 0 THEN ef ELSE e, W |-> run.W,
                                  pops |-> run.pops, pushed |-> run.pushed,
                                  result |-> GroupByScore(q, sel.r)]

\* Lines 507-540 as a function of the graph: what knn_search(q, k, e) may
\* return or raise on the index with neighbor sets nb, layers lay and enter
\* point ep.
knn_results(nb, lay, ep, q, k, e) ==
    IF AlgorithmOf[q] # IndexAlgorithm
    THEN {[err |-> "HNSWUnmatchDistanceAlgorithmError", result |-> <<>>]}
    ELSE IF ep = None THEN {[err |-> "AttributeError", result |-> <<>>]}
    ELSE UNION {UNION {{[err |-> sel.err,
                         result |-> IF sel.err = "none" THEN GroupByScore(q, sel.r) ELSE <<>>] :
                            sel \in _select_neighbors(nb, q, W, k, 0)} :
                       W \in _search_layer_knn(nb, q, {p}, IF e = 0 THEN ef ELSE e, 0)} :
                p \in _descend_to_layer(nb, lay, ep, q, 1)}

\* percentage_search(query, percentage), lines 543-563: line 558 reads
\* self.enter_point, an attribute the index does not have (__init__ sets
\* _enter_point), so the call ends there with AttributeError, on an empty index
\* and on a filled one, before search_layer_percentage is reached.
Percentages == {0, 10, MaxScore}
percentage_search(q, percentage) ==
    /\ last' = [op |-> "percentage_search", node |-> q, res |-> "AttributeError"]
    /\ found' = NoResult
    /\ sweep' = <<>>
    /\ selection' = NoSelection
    /\ UNCHANGED <<config, layer, neighbors, enter_point, nodes, live, calls, file, loaded>>

\* ------------------------------------------------------------ snapshot file
\* The file is a header that holds the three stored CRCs and a body of words
\* (each I_SIZE bytes in the file, WordBits bits here): the cfg section, the
\* enter point section and the nodes section, one after the other.
Words == 0..(2^WordBits - 1)
\* Line 65: the cfg section has a fixed size (here in words).
CFG_SIZE == 8
\* zlib.crc32 (lines 66, 111, 193) as a CRC of CrcWidth bits (the integers of
\* the model checker have 32 bits, sign included) with the generator
\* polynomial x^24 + x^4 + x^3 + x + 1, computed bit by bit.
CrcWidth == 24
CrcTaps == <<4, 3, 1, 0>>
Bit(w, j) == (w \div 2^j) % 2
\* Exclusive or of u with the terms of the generator below x^CrcWidth.
RECURSIVE SubtractGenerator(_, _)
SubtractGenerator(u, i) ==
    IF i > Len(CrcTaps) THEN 0
    ELSE (IF Bit(u, CrcTaps[i]) = 1 THEN 0 - 2^CrcTaps[i] ELSE 2^CrcTaps[i])
            + SubtractGenerator(u, i + 1)
\* One step of the division: the register takes in bit b, and the generator
\* is subtracted (exclusive or) when the term x^CrcWidth shows up.
CrcShift(c, b) ==
    LET t == 2 * c + b
        u == t - 2^CrcWidth
    IN  IF t >= 2^CrcWidth THEN u + SubtractGenerator(u, 1) ELSE t
\* F applied to the value of x (x is evaluated before F is entered).
Strict(x, F(_)) == CHOOSE r \in {F(v) : v \in {x}} : TRUE
\* The register after bits j down to 0 of word w have been taken in.
RECURSIVE CrcWord(_, _, _)
CrcWord(c, w, j) == IF j < 0 THEN c ELSE CrcWord(CrcShift(c, Bit(w, j)), w, j - 1)
\* The register after the words lo to hi of s have been taken in (the range
\* is halved at each call).
RECURSIVE CrcSeq(_, _, _, _)
CrcSeq(c, s, lo, hi) ==
    IF lo > hi THEN c
    ELSE IF lo = hi THEN CrcWord(c, s[lo], WordBits - 1)
    ELSE Strict(CrcSeq(c, s, lo, (lo + hi) \div 2),
                LAMBDA d : CrcSeq(d, s, (lo + hi) \div 2 + 1, hi))
\* The remainder, after CrcWidth zero bits have followed the message.
crc32(s) ==
    CrcSeq(0, s \o [i \in 1..(CrcWidth \div WordBits) |-> 0], 1,
           Len(s) + CrcWidth \div WordBits)

\* What dump writes.  The metric tag is 1 for TLSH and 2 for SSDEEP; the page
\* id of a record is its number; the neighbors of a neighborhood are written
\* in ascending order of page id.
MetricTag(a) == IF a = "tlsh" THEN 1 ELSE 2
Flag(b) == IF b THEN 1 ELSE 0
CfgSection ==
    <<M, ef, Mmax, Mmax0, MetricTag(IndexAlgorithm),
      Flag(heuristic), Flag(extend_candidates), Flag(keep_pruned_conns)>>
RECURSIVE Neighborhoods(_, _)
Neighborhoods(r, L) ==
    IF L > layer[r] THEN <<>>
    ELSE <<L, Cardinality(neighbors[r][L])>> \o SortedByScore(neighbors[r][L])
            \o Neighborhoods(r, L + 1)
NodeRecord(r, with_layer) ==
    <<r>> \o (IF with_layer THEN <<layer[r]>> ELSE <<>>) \o <<layer[r] + 1>>
        \o Neighborhoods(r, 0)
RECURSIVE NodeRecords(_, _)
NodeRecords(L, i) ==
    IF i > Len(nodes[L]) THEN <<>>
    ELSE NodeRecord(nodes[L][i], FALSE) \o NodeRecords(L, i + 1)
RECURSIVE LayerBlocks(_)
LayerBlocks(L) ==
    IF L > MaxDeep THEN <<>>
    ELSE (IF nodes[L] = <<>> THEN <<>>
          ELSE <<L, Len(nodes[L])>> \o NodeRecords(L, 1)) \o LayerBlocks(L + 1)
EntrySection == NodeRecord(enter_point, TRUE)
NodesSection == <<Cardinality({L \in Layers : nodes[L] # <<>>})>> \o LayerBlocks(0)
Snapshot ==
    [crc |-> <<crc32(CfgSection), crc32(EntrySection), crc32(NodesSection)>>,
     body |-> CfgSection \o EntrySection \o NodesSection,
     altered |-> FALSE]

\* f.read(I_SIZE) at position p, turned into an integer: past the end of the
\* file the read gives no bytes, and int.from_bytes of no bytes is 0.
Rd(b, p) == IF p <= Len(b) THEN b[p] ELSE 0
\* The bytes the reads from position p up to position q have returned.
Chunk(b, p, q) ==
    IF p > Len(b) \/ q < p THEN <<>> ELSE SubSeq(b, p, IF q <= Len(b) THEN q ELSE Len(b))

\* Lines 176-191: the neighborhoods of a node record; acc holds the pairs
\* <<layer, page id>> read so far (a layer read again starts from an empty list).
RECURSIVE read_neighborhoods(_, _, _, _)
read_neighborhoods(b, p, nhoods, acc) ==
    IF nhoods = 0 THEN [links |-> acc, next |-> p]
    ELSE LET L == Rd(b, p)
             neighs == Rd(b, p + 1)
             pids == {Rd(b, p + 1 + i) : i \in 1..neighs}
         IN  read_neighborhoods(b, p + 2 + neighs, nhoods - 1,
                                {h \in acc : h[1] # L} \cup {<<L, x>> : x \in pids})

\* Lines 157-193 of _load_node_from_fp: the fields of one node record and
\* the bytes read for it.
read_node(b, p, with_layer) ==
    LET p2 == IF with_layer THEN p + 2 ELSE p + 1
        h == read_neighborhoods(b, p2 + 1, Rd(b, p2), {})
    IN  [page_id |-> Rd(b, p),
         max_layer |-> IF with_layer THEN Rd(b, p + 1) ELSE NoLayer,
         links |-> h.links, next |-> h.next, bnode |-> Chunk(b, p, h.next - 1)]

\* Line 202, db_manager.get_winmodule_data_by_pageid: the store holds the
\* pages of the records and of no other page id.
fetch_fails(page_id) == page_id \notin Records

\* Lines 102-109: the n node records of layer L.  st holds the position in
\* the file, the page ids of pageid_to_node, the layer of each node made, the
\* nodes handed to _insert_node in order, pageid_neighs as triples
\* <<page id, layer, neighbor page id>>, and the error raised, if any.
RECURSIVE load_layer_nodes(_, _, _, _)
load_layer_nodes(b, st, L, n) ==
    IF n = 0 \/ st.err # "none" THEN st
    ELSE LET nd == read_node(b, st.p, FALSE)
             r == nd.page_id
         IN  IF r \notin st.known /\ fetch_fails(r)
             THEN [st EXCEPT !.err = "LoaderFailed"]
             ELSE IF set_max_layer_fails(st.lay, r, L)
             THEN [st EXCEPT !.err = "NodeLayerError"]
             ELSE load_layer_nodes(b,
                     [p |-> nd.next, known |-> st.known \cup {r},
                      lay |-> set_max_layer(st.lay, r, L),
                      nds |-> Append(st.nds, <<L, r>>),
                      links |-> {t \in st.links : t[1] # r}
                                    \cup {<<r, h[1], h[2]>> : h \in nd.links},
                      err |-> "none"], L, n - 1)

\* Lines 92-109: the n layers of the nodes section.
RECURSIVE load_layers(_, _, _)
load_layers(b, st, n) ==
    IF n = 0 \/ st.err # "none" THEN st
    ELSE load_layers(b,
            load_layer_nodes(b, [st EXCEPT !.p = st.p + 2], Rd(b, st.p), Rd(b, st.p + 1)),
            n - 1)

\* A load that raised res; why tells the place.
Failed(res, why) == [NoLoad EXCEPT !.res = res, !.why = why]

\* A second pass that leaves out the neighbor page ids it does not find.
link_neighbors_found(st, ep) ==
    {[res |-> "ok", why |-> "none", given |-> "none", enter_point |-> ep,
      layer |-> st.lay, links |-> {t \in st.links : t[3] \in st.known}, nodes |-> st.nds]}

\* Lines 115-136: every neighbor page id is looked up and linked to its node
\* (one way); the order of the lookups is the order of the dict and the sets.
link_neighbors(st, ep) ==
    LET missing == {t \in st.links : t[3] \notin st.known}
        above == {t \in st.links : t[3] \in st.known /\ add_neighbor_fails(st.lay, t[1], t[2])}
    IN  IF missing = {} /\ above = {}
        THEN {[res |-> "ok", why |-> "none", given |-> "none", enter_point |-> ep,
               layer |-> st.lay, links |-> st.links, nodes |-> st.nds]}
        ELSE {Failed("ApotFileReadError", "pageid") : t \in missing}
                \cup {Failed("NodeLayerError", "link") : t \in above}

\* Lines 75-136 of ApotheosisWinModule.__init__: the outcomes of reading the
\* enter point and the nodes of file f and linking them.
load_nodes(f) ==
    LET b == f.body
        e == read_node(b, CFG_SIZE + 1, TRUE)
        ep == e.page_id
        st0 == [p |-> e.next + 1, known |-> {ep},
                lay |-> [r \in Records |-> IF r = ep THEN e.max_layer ELSE NoLayer],
                nds |-> <<<<e.max_layer, ep>>>>,
                links |-> {<<ep, h[1], h[2]>> : h \in e.links},
                err |-> "none"]
        st == load_layers(b, st0, Rd(b, e.next))
    IN  IF fetch_fails(ep) THEN {Failed("LoaderFailed", "entry")}
        ELSE IF crc32(e.bnode) # f.crc[2] THEN {Failed("ApotFileReadError", "entry")}
        ELSE IF st.err # "none" THEN {Failed(st.err, "nodes")}
        ELSE IF crc32(Chunk(b, e.next, st.p - 1)) # f.crc[3]
        THEN {Failed("ApotFileReadError", "nodes")}
        ELSE link_neighbors(st, ep)

\* A loader that reads the nodes whatever the distance algorithm asked for.
Load_any_algorithm(f, distance_algorithm) ==
    IF crc32(Chunk(f.body, 1, CFG_SIZE)) # f.crc[1]
    THEN {Failed("ApotFileReadError", "cfg")}
    ELSE load_nodes(f)

\* Lines 56-139 of ApotheosisWinModule.__init__ with a filename: the outcomes
\* of loading file f for the given distance algorithm.
Load(f, distance_algorithm) ==
    LET data == Chunk(f.body, 1, CFG_SIZE)
    IN  IF crc32(data) # f.crc[1] THEN {Failed("ApotFileReadError", "cfg")}
        ELSE IF Rd(data, 5) # MetricTag(distance_algorithm)
        THEN {Failed("ApotheosisUnmatchDistanceAlgorithmError", "cfg")}
        ELSE load_nodes(f)

\* dump(filename) of a non-empty index.
dump ==
    /\ enter_point # None
    /\ file' = Snapshot
    /\ loaded' = NoLoad
    /\ found' = NoResult
    /\ last' = [op |-> "dump", node |-> None, res |-> "None"]
    /\ sweep' = <<>>
    /\ selection' = NoSelection
    /\ UNCHANGED <<config, layer, neighbors, enter_point, nodes, live, calls>>

\* One bit of one word of a section of the file changes on the disk.
flip(i, j) ==
    /\ file # NoFile
    /\ ~file.altered
    /\ i \in 1..Len(file.body)
    /\ file' = [file EXCEPT !.body[i] = IF Bit(@, j) = 1 THEN @ - 2^j ELSE @ + 2^j,
                              !.altered = TRUE]
    /\ loaded' = NoLoad
    /\ found' = NoResult
    /\ last' = [op |-> "flip", node |-> None, res |-> "None"]
    /\ sweep' = <<>>
    /\ selection' = NoSelection
    /\ UNCHANGED <<config, layer, neighbors, enter_point, nodes, live, calls>>

\* ApotheosisWinModule.load(filename, distance_algorithm), lines 230-240.
load(distance_algorithm) ==
    /\ file # NoFile
    /\ \E out \in Load(file, distance_algorithm) :
            /\ loaded' = [out EXCEPT !.given = distance_algorithm]
            /\ last' = [op |-> "load", node |-> None, res |-> out.res]
    /\ found' = NoResult
    /\ sweep' = <<>>
    /\ selection' = NoSelection
    /\ UNCHANGED <<config, layer, neighbors, enter_point, nodes, live, calls, file>>

Next ==
    \/ calls < MaxCalls /\ \E x \in Records : \E l \in Drawn : add_node(x, l)
    \/ calls < MaxCalls /\ \E x \in Records : delete_node(x)

\* The calls of a behaviour that builds an index and searches it; a search is
\* not followed at once by another search (the second would start from the
\* index the first started from).
NextSearch ==
    \/ calls < MaxBuilt /\ \E x \in Records : \E l \in Drawn : add_node(x, l)
    \/ calls < MaxBuilt /\ \E x \in Records : delete_node(x)
    \/ last.op # "knn_search" /\
            \E q \in Records : \E k \in 0..MaxK : \E e \in EfArgs : knn_search(q, k, e)

\* The calls of a behaviour that builds an index, dumps it and loads the file;
\* an index built with at most MaxAltered calls may be searched before the
\* dump, and its file may be altered before it is loaded.
NextLoad ==
    \/ file = NoFile /\ calls < MaxDumped /\ \E x \in Records : \E l \in Drawn : add_node(x, l)
    \/ file = NoFile /\ calls < MaxDumped /\ \E x \in Records : delete_node(x)
    \/ file = NoFile /\ dump
    \/ file = NoFile /\ calls <= MaxAltered /\ last.op # "knn_search" /\
            \E q \in Records : \E k \in 0..MaxK : \E e \in EfArgs : knn_search(q, k, e)
    \/ calls <= MaxAltered /\ \E i \in 1..MaxWords : \E j \in 0..(WordBits - 1) : flip(i, j)
    \/ \E a \in {"tlsh", "ssdeep"} : load(a)

Spec == Init /\ [][Next]_vars

SpecHeuristic == InitHeuristic /\ [][Next]_vars

SpecSearch == Init /\ [][NextSearch]_vars

SpecSearchHeuristic == InitHeuristic /\ [][NextSearch]_vars

SpecLoad == Init /\ [][NextLoad]_vars

\* The calls of a behaviour that builds an index and makes threshold searches.
NextThreshold ==
    \/ calls < MaxBuilt /\ \E x \in Records : \E l \in Drawn : add_node(x, l)
    \/ calls < MaxBuilt /\ \E x \in Records : delete_node(x)
    \/ \E q \in Records : \E p \in Percentages : percentage_search(q, p)

SpecThreshold == Init /\ [][NextThreshold]_vars

\* The calls of a behaviour that builds an index of up to three layers out of
\* the records of four ids, every record on a layer above layer 0.
DeepRecords == 1..4
NextDeep ==
    \/ calls < MaxDeepCalls /\ \E x \in DeepRecords : \E l \in 1..MaxDeep : add_node(x, l)
    \/ calls < MaxDeepCalls /\ \E x \in DeepRecords : delete_node(x)

SpecDeep == Init /\ [][NextDeep]_vars

\* The calls of a behaviour that builds an index out of the records of four
\* ids, every draw giving the top layer, dumps it and loads the file.
NextLoadDeep ==
    \/ file = NoFile /\ calls < MaxCalls /\ \E x \in DeepRecords : add_node(x, MaxLayer)
    \/ file = NoFile /\ calls < MaxCalls /\ \E x \in DeepRecords : delete_node(x)
    \/ file = NoFile /\ dump
    \/ \E a \in {"tlsh", "ssdeep"} : load(a)

SpecLoadDeep == Init /\ [][NextLoadDeep]_vars

\* A call of _select_neighbors_simple(node, candidates, M) on its own: the
\* candidate set handed in, the same set after the call (sorted() builds a
\* list of its own) and the list returned.
select_neighbors_simple(base, cands, m) ==
    /\ \E S \in _select_neighbors_simple(base, cands, m) :
            selection' = [candidates |-> cands, M |-> m, layer |-> 0, left |-> cands,
                          result |-> S, err |-> "none"]
    /\ last' = [op |-> "_select_neighbors_simple", node |-> base, res |-> "list"]
    /\ found' = NoResult
    /\ sweep' = <<>>
    /\ UNCHANGED <<config, layer, neighbors, enter_point, nodes, live, calls, file, loaded>>

\* A behaviour that makes one selection of neighbors out of a set of records,
\* for every M from 0 on.
NextSelect ==
    /\ last.op = "init"
    /\ \E base \in Records : \E cands \in SUBSET Records : \E m \in 0..MaxM :
            select_neighbors_simple(base, cands, m)

SpecSelect == Init /\ [][NextSelect]_vars

\* A call of _select_neighbors_heuristics(node, candidates, M, layer,
\* extend_candidates, keep_pruned_conns) on its own, with the flags of the
\* index and a candidate set of the caller's: the set handed in, the same set
\* as the call leaves it, and the set returned or the exception raised.
select_neighbors_heuristics(base, cands, m, L) ==
    /\ \E sel \in _select_neighbors_heuristics(neighbors, base, cands, m, L,
                                               extend_candidates, keep_pruned_conns) :
            /\ selection' = [candidates |-> cands, M |-> m, layer |-> L, left |-> sel.c,
                             result |-> sel.r, err |-> sel.err]
            /\ last' = [op |-> "_select_neighbors_heuristics", node |-> base,
                        res |-> IF sel.err = "none" THEN "set" ELSE sel.err]
    /\ found' = NoResult
    /\ sweep' = <<>>
    /\ UNCHANGED <<config, layer, neighbors, enter_point, nodes, live, calls, file, loaded>>

\* The calls of a behaviour that builds an index with the heuristic selection
\* switched on and selects neighbors out of sets of its records, for a base
\* of every id, every M from 0 on and every layer.
NextSelectHeuristic ==
    \/ calls < MaxBuilt /\ \E x \in Records : \E l \in Drawn : add_node(x, l)
    \/ last.op # "_select_neighbors_heuristics" /\
            \E base \in DeepRecords : \E cands \in SUBSET live : \E m \in 0..MaxM :
            \E L \in Drawn :
                select_neighbors_heuristics(base, cands, m, L)

SpecSelectHeuristic == InitHeuristic /\ [][NextSelectHeuristic]_vars

\* ----------------------------------------------------------------- claims
\* The step just taken is a call of add_node / delete_node.
AddStep == calls' = calls + 1 /\ last'.op = "add_node"
DeleteStep == calls' = calls + 1 /\ last'.op = "delete_node"
\* The cap on the number of neighbors at layer L.
Cap(L) == IF L = 0 THEN Mmax0 ELSE Mmax
\* Some record of the graph carries the id of record x.
IdInGraph(x) == \E r \in live : IdOf[r] = IdOf[x]

\* C1: after any sequence of add_node and delete_node calls, for all records
\* u, v of the graph and every layer L, v is a layer-L neighbor of u exactly
\* when u is a layer-L neighbor of v.
C1_Bidirectional ==
    \A u \in live, v \in live, L \in Layers :
        (v \in neighbors[u][L]) <=> (u \in neighbors[v][L])

\* C2: after any sequence of calls, every record of the graph has at most
\* Mmax0 neighbors at layer 0 and at most Mmax neighbors at each layer above.
C2_DegreeCap ==
    \A u \in live, L \in Layers : Cardinality(neighbors[u][L]) <= Cap(L)

\* The layer of the entry point is the largest layer of a record of the graph.
EnterPointOnTop ==
    live # {} =>
        /\ enter_point # None
        /\ \A r \in live : layer[r] <= layer[enter_point]
        /\ \E r \in live : layer[r] = layer[enter_point]

C4_NullIffEmpty ==
    /\ [](enter_point = None <=> live = {})
    /\ [][(DeleteStep /\ live = {last'.node}) =>
            (enter_point' = None /\ live' = {} /\ \A L \in Layers : nodes'[L] = <<>>)]_vars

\* C5: add_node(x) fails with NodeAlreadyExists whenever a record of the graph
\* has the id of x, so no two records of the graph ever share an id.
C5_NoSharedId ==
    /\ \A u \in live, v \in live : IdOf[u] = IdOf[v] => u = v
    /\ (last.op = "add_node" /\ last.res = "True") =>
            ~ \E r \in live \ {last.node} : IdOf[r] = IdOf[last.node]

\* C6: when add_node fails with NodeAlreadyExists the entry point, the
\* by-layer index and every neighbor set of every record of the graph are as
\* they were before the call.
C6_RejectedInsertChangesNothing ==
    [][(AddStep /\ last'.res = "NodeAlreadyExistsError") =>
            /\ enter_point' = enter_point
            /\ nodes' = nodes
            /\ \A r \in live : neighbors'[r] = neighbors[r]]_vars

\* C7: delete_node(x) returns True for every record x of the graph, and
\* NodeNotFound is raised only when no record of the graph has the id of x.
C7_DeleteSucceeds ==
    [][DeleteStep =>
            /\ last'.node \in live => last'.res = "True"
            /\ last'.res = "NodeNotFoundError" => ~IdInGraph(last'.node)]_vars

\* C8: delete_node(x) on a non-empty graph none of whose records has the id
\* of x fails with NodeNotFound and leaves the entry point, the by-layer
\* index and all neighbor sets unchanged.
C8_DeleteAbsent ==
    [][(/\ DeleteStep
        /\ live # {}
        /\ AlgorithmOf[last'.node] = IndexAlgorithm
        /\ ~IdInGraph(last'.node)) =>
            /\ last'.res = "NodeNotFoundError"
            /\ enter_point' = enter_point
            /\ nodes' = nodes
            /\ neighbors' = neighbors]_vars

C10_EnterPointReplaced ==
    [][(/\ DeleteStep
        /\ last'.node = enter_point
        /\ enter_point \in live
        /\ Cardinality(live) >= 2) =>
            /\ enter_point' # None
            /\ enter_point' # last'.node
            /\ enter_point' \in live \ {last'.node}]_vars

\* The last call was a knn_search that returned its mapping.
Searched == last.op = "knn_search" /\ last.res = "dict"
\* Score s is at least as close as score t in the direction of the metric.
AsClose(s, t) == IF spatial THEN s <= t ELSE s >= t
\* The records of the mapping knn_search returned.
Returned == UNION {found.result[i].records : i \in 1..Len(found.result)}

\* C11: when the id of the query is the id of a record of the graph, a
\* knn_search with k >= 1 returns a mapping that holds a record of that id in
\* its group of the closest score.
C11_ExactMatchFound ==
    (Searched /\ found.k >= 1 /\ IdInGraph(last.node)) =>
        \E i \in 1..Len(found.result) :
            /\ \E r \in found.result[i].records : IdOf[r] = IdOf[last.node]
            /\ \A j \in 1..Len(found.result) :
                    AsClose(found.result[i].score, found.result[j].score)

\* C11 (amended): when the layer-0 search of a knn_search with k >= 1 ends
\* with a record of the query's id among the nearest neighbors it found, the
\* mapping returned holds a record of that id in its group of the closest
\* score (of several records of that id in W, k = 1 returns one).
C11_MatchInWReturned ==
    (Searched /\ found.k >= 1 /\ \E r \in found.W : IdOf[r] = IdOf[last.node]) =>
        \E i \in 1..Len(found.result) :
            /\ \E r \in found.result[i].records \cap found.W :
                    IdOf[r] = IdOf[last.node]
            /\ \A j \in 1..Len(found.result) :
                    AsClose(found.result[i].score, found.result[j].score)

\* C11 witness: a search with k = 1 whose layer-0 search found two records,
\* one of them another object with the id of the query, and returned that one.
C11_MatchAmongTwo ==
    /\ Searched /\ found.k = 1
    /\ Cardinality(found.W) = 2
    /\ \E r \in found.W \ {last.node} : IdOf[r] = IdOf[last.node] /\ r \in Returned

\* C12: the records knn_search returns are a simple selection of k from the
\* layer-0 search result W: min(k, |W|) records of W, none of them farther
\* from the query than a record of W left out.
C12_SimpleSelection ==
    Searched =>
        /\ Returned \subseteq found.W
        /\ Cardinality(Returned) =
                (IF found.k < Cardinality(found.W) THEN found.k ELSE Cardinality(found.W))
        /\ \A s \in Returned, t \in found.W \ Returned :
                AsClose(calculate_similarity(s, last.node), calculate_similarity(t, last.node))

\* C13: the mapping knn_search returns lists its score groups from the closest
\* score to the farthest (ascending for a spatial measure, descending for a
\* similarity), and each record stands under the key equal to its score
\* against the query.
C13_ClosestFirst ==
    Searched =>
        /\ \A i \in 1..Len(found.result), j \in 1..Len(found.result) :
                i < j => /\ AsClose(found.result[i].score, found.result[j].score)
                         /\ found.result[i].score # found.result[j].score
        /\ \A i \in 1..Len(found.result) : \A r \in found.result[i].records :
                calculate_similarity(r, last.node) = found.result[i].score

\* The step just taken is a call of knn_search.
SearchStep == last'.op = "knn_search"

\* C14: knn_search changes nothing in the graph: the entry point, the by-layer
\* index, the layer of every record and every neighbor set are after the call
\* what they were before it, whatever the selection flags.
C14_SearchReadOnly ==
    [][SearchStep =>
            /\ enter_point' = enter_point
            /\ nodes' = nodes
            /\ layer' = layer
            /\ neighbors' = neighbors]_vars

\* C14 witness: with heuristic selection and extend_candidates on, a search
\* over linked records has returned two of them.
C14_HeuristicSearchDone ==
    /\ heuristic /\ extend_candidates
    /\ Searched
    /\ Cardinality(Returned) = 2
    /\ \A r \in Returned : neighbors[r][0] # {}

\* C15: delete_node and knn_search called on an empty index, with a record of
\* the index's distance algorithm, fail with the index-empty error and leave
\* the index empty.
C15_EmptyIndexError ==
    [][(/\ enter_point = None
        /\ DeleteStep \/ SearchStep
        /\ AlgorithmOf[last'.node] = IndexAlgorithm) =>
            /\ last'.res = "HNSWIsEmptyError"
            /\ enter_point' = None
            /\ nodes' = nodes]_vars

\* The step just taken is a call of load; the cfg section of the file is as
\* it was written.
LoadStep == last'.op = "load"
CfgIntact == crc32(Chunk(file.body, 1, CFG_SIZE)) = file.crc[1]
\* The graph after the step is the graph before it.
GraphUnchanged == UNCHANGED <<layer, neighbors, enter_point, nodes>>

\* C16: add_node, delete_node on a non-empty index and knn_search given a
\* record of another distance algorithm than the index's, and load given
\* another distance algorithm than the tag stored in the cfg section of the
\* file, fail with the unmatched-distance-algorithm error before anything is
\* changed: no layer is assigned, no edge is changed, no index is returned.
C16_MetricCheckedFirst ==
    [][/\ ((/\ \/ AddStep
               \/ DeleteStep /\ enter_point # None
               \/ SearchStep
            /\ AlgorithmOf[last'.node] # IndexAlgorithm) =>
                /\ last'.res = "HNSWUnmatchDistanceAlgorithmError"
                /\ GraphUnchanged
                /\ found' = NoResult)
       /\ ((/\ LoadStep
            /\ CfgIntact
            /\ Rd(file.body, 5) # MetricTag(loaded'.given)) =>
                /\ last'.res = "ApotheosisUnmatchDistanceAlgorithmError"
                /\ loaded' = [NoLoad EXCEPT !.res = last'.res, !.why = "cfg",
                                            !.given = loaded'.given]
                /\ GraphUnchanged)]_vars

\* C16 (witness): the file of an index of two records, altered in its nodes
\* section, was loaded for another distance algorithm than its tag, and the
\* load failed on the mismatch.
C16_LoadRefused ==
    /\ last.op = "load"
    /\ last.res = "ApotheosisUnmatchDistanceAlgorithmError"
    /\ loaded.given = "ssdeep"
    /\ file.altered
    /\ CfgIntact
    /\ Cardinality(live) = 2

\* The neighbor sets of the index a load returned.
LoadedNeighbors ==
    [r \in Records |-> [L \in Layers |-> {n \in Records : <<r, L, n>> \in loaded.links}]]
\* The records the index holds in its lists of nodes, and their links as
\* triples <<record, layer, neighbor>>.
Stored == UNION {{nodes[L][i] : i \in 1..Len(nodes[L])} : L \in Layers}
Links == {t \in Stored \X Layers \X Records : t[3] \in neighbors[t[1]][t[2]]}
\* The file written by dump was loaded, unaltered, for the algorithm of the index.
DumpLoaded ==
    /\ last.op = "load"
    /\ ~file.altered
    /\ loaded.given = IndexAlgorithm

\* C17: loading the file dump wrote for an index reached by add_node and
\* delete_node calls gives an index with the same enter point, the same layer
\* of every record and the same neighbor sets, and so the same knn_search
\* result for every query, k and ef.
C17_RoundTrip ==
    DumpLoaded =>
        /\ loaded.res = "ok"
        /\ loaded.enter_point = enter_point
        /\ \A r \in Stored : loaded.layer[r] = layer[r]
        /\ loaded.links = Links
        /\ \A q \in Records : \A k \in 0..MaxK : \A e \in EfArgs :
                knn_results(LoadedNeighbors, loaded.layer, loaded.enter_point, q, k, e)
                    = knn_results(neighbors, layer, enter_point, q, k, e)

\* The file was altered in one bit after the dump and then loaded for the
\* algorithm of the index.
AlteredLoaded ==
    /\ last.op = "load"
    /\ file.altered
    /\ loaded.given = IndexAlgorithm

\* C18: when one bit of one stored value of the cfg, the enter point or the
\* nodes section of a dumped file is changed, load fails on a CRC comparison
\* and with no other error, whichever value was changed.
C18_AlterationIsBadCRC ==
    AlteredLoaded =>
        /\ loaded.res = "ApotFileReadError"
        /\ loaded.why \in {"cfg", "entry", "nodes"}

\* The neighbor page ids stored in the node records of the file that are the
\* page id of no record of the file (the file being as dump wrote it, they
\* are the neighbors of stored records that are not stored themselves).
Unresolved == {t \in Links : t[3] \notin Stored}

\* C19: load of a file in which a stored neighbor page id is the page id of
\* no record read from the file fails with the error of the second pass
\* (ApotFileReadError, node with pageid not found) and returns no index.
C19_UnresolvedNeighbor ==
    (last.op = "load" /\ ~file.altered /\ loaded.given = IndexAlgorithm /\ Unresolved # {}) =>
        /\ loaded.res = "ApotFileReadError"
        /\ loaded.why = "pageid"
        /\ loaded.enter_point = None
        /\ loaded.links = {}
        /\ loaded.nodes = <<>>

\* C19 (witness): such a file was loaded: page id 3 is stored as a neighbor
\* of the enter point and no record of the file has it.
C19_DanglingLoaded ==
    /\ last.op = "load"
    /\ ~file.altered
    /\ loaded.given = IndexAlgorithm
    /\ \E t \in Unresolved : t[1] = enter_point /\ t[3] = 3
    /\ loaded.res = "ApotFileReadError"

\* C20: a threshold search (percentage_search) of an index that holds
\* records, for a query of the algorithm of the index, returns a collection
\* of records, and every record in it has a score against the query that
\* satisfies the threshold in the direction of the metric: at most the
\* threshold for a spatial metric, at least the threshold for a similarity
\* metric (found.W holds the records returned, found.k the threshold).
C20_ThresholdKept ==
    (/\ last.op = "percentage_search"
     /\ enter_point # None
     /\ AlgorithmOf[last.node] = IndexAlgorithm) =>
        /\ last.res = "set"
        /\ \A r \in found.W : AsClose(calculate_similarity(r, last.node), found.k)

\* The last call was an add_node that found the duplicate below the first
\* layer of its sweep, the new record having been linked at the layers above.
LateDuplicate ==
    /\ last.op = "add_node"
    /\ last.res = "NodeAlreadyExistsError"
    /\ Len(sweep) >= 2

\* C21: when the insertion sweep finds the duplicate at a layer below one at
\* which it has linked the new record, then as add_node fails with
\* NodeAlreadyExists no record of the graph has the rejected record in a
\* neighbor set at any layer.
C21_RolledBack ==
    LateDuplicate =>
        \A r \in live \ {last.node}, L \in Layers : last.node \notin neighbors[r][L]

\* C22: every call of the single-layer search returns at most ef records, ef
\* being the breadth handed to the call: the calls of the insertion sweep of
\* add_node at its first layer and below it (breadth ef of the index), and
\* the layer-0 call of knn_search (breadth found.ef).
C22_AtMostEf ==
    /\ \A i \in 1..Len(sweep) : Cardinality(sweep[i].W) <= ef
    /\ Searched => Cardinality(found.W) <= found.ef

\* C24: during the insertion sweep the entry set handed to the single-layer
\* search at a layer is exactly the set W the search returned at the layer
\* above: not a superset gathered over the layers above, not a set the
\* neighbor selection of the layer above has altered.
C24_FrontierIsW ==
    \A i \in 1..(Len(sweep) - 1) : sweep[i + 1].eps = sweep[i].W

\* C23: in every iteration of the single-layer search the element popped from
\* the candidates queue is a candidate closest to the query among the
\* candidates queued at that moment, for a spatial and for a similarity
\* metric alike (stated on the layer-0 search of knn_search).
C23_ClosestPopped ==
    Searched =>
        \A p \in found.pops : p.popped \in _find_nearest_element(last.node, p.queue)

\* C25: when a neighbor n chosen for the new record holds more than cap(L)
\* neighbors at layer L once it is linked to the new record, its layer-L set
\* becomes the selection of cap(L) records made with n as base over n's own
\* layer-L neighbors, and add_node completes successfully.
C25_ShrinkCompletes ==
    [][AddStep =>
        \A L \in Layers : \A n \in neighbors'[last'.node][L] \ neighbors[last'.node][L] :
            Cardinality(neighbors[n][L] \cup {last'.node}) > Cap(L) =>
                /\ last'.res = "True"
                /\ neighbors'[n][L] \in
                        _select_neighbors_simple(n, neighbors[n][L] \cup {last'.node}, Cap(L))]_vars

\* The highest layer at which record x has a neighbor (NoLayer when it has
\* none at any layer up to its own).
TopLinkedLayer(x) ==
    IF \A L \in 0..layer[x] : neighbors[x][L] = {} THEN NoLayer
    ELSE CHOOSE L \in 0..layer[x] :
            /\ neighbors[x][L] # {}
            /\ \A K \in (L + 1)..layer[x] : neighbors[x][K] = {}

\* C26: when the record deleted is the entry point, the new entry point is the
\* nearest neighbor of the deleted record at the highest layer at which it has
\* a neighbor: the layers are examined from entry_point.layer downward and the
\* first layer with a neighbor decides.
C26_ReplacementFromTop ==
    [][(/\ DeleteStep
        /\ last'.node = enter_point
        /\ enter_point \in live
        /\ TopLinkedLayer(enter_point) # NoLayer) =>
            enter_point' \in _find_nearest_element(enter_point,
                                neighbors[enter_point][TopLinkedLayer(enter_point)])]_vars

RECURSIVE ReachableFrom(_)
ReachableFrom(S) ==
    LET T == S \cup UNION {neighbors[r][L] : r \in S, L \in Layers}
    IN  IF T = S THEN S ELSE ReachableFrom(T)
InGraph == IF enter_point = None THEN {} ELSE ReachableFrom({enter_point})

\* C28: after any sequence of add_node and delete_node calls the by-layer
\* index holds exactly the records that are in the graph, each exactly once
\* and under the key equal to its layer.
C28_ByLayerIndexExact ==
    /\ Stored = InGraph
    /\ \A L \in Layers : \A i \in 1..Len(nodes[L]) :
            /\ layer[nodes[L][i]] = L
            /\ \A j \in 1..Len(nodes[L]) : nodes[L][i] = nodes[L][j] => i = j

\* C29: the layer of a record that is in the graph never changes after the
\* add_node call that inserted it, in particular not when a later add_node
\* call on the same record, or on a record of the same id, fails with
\* NodeAlreadyExists.
C29_LayerKept ==
    [][\A r \in live : layer'[r] = layer[r]]_vars

\* C29 (witness): add_node was called again on a record of the graph that is
\* not the enter point, and failed with NodeAlreadyExists; the record has the
\* layer it had.
C29_ReinsertRejected ==
    /\ last.op = "add_node"
    /\ last.res = "NodeAlreadyExistsError"
    /\ last.node \in live \ {enter_point}
    /\ \E i \in 1..Len(nodes[layer[last.node]]) : nodes[layer[last.node]][i] = last.node

\* C30: after any sequence of add_node and delete_node calls, re-insertion of
\* a record object that is already in the graph included, no record is in its
\* own neighbor set at any layer.
C30_NoSelfLoop ==
    \A r \in Records, L \in Layers : r \notin neighbors[r][L]

\* C30 (witness): add_node was called on a record object of the graph, the
\* search of its sweep returned that very record, and the call was rejected.
C30_FoundItself ==
    /\ last.op = "add_node"
    /\ last.res = "NodeAlreadyExistsError"
    /\ last.node \in live
    /\ Len(sweep) >= 1
    /\ last.node \in sweep[Len(sweep)].W

\* C31: after any sequence of add_node and delete_node calls, every edge at
\* layer L joins two records whose own layer is at least L: a record has
\* neighbor sets only at the layers 0..layer, and each of its layer-L
\* neighbors exists at layer L.
C31_EdgesWithinLayers ==
    \A r \in Records, L \in Layers :
        neighbors[r][L] # {} =>
            /\ L <= layer[r]
            /\ \A n \in neighbors[r][L] : L <= layer[n]

\* C31 (witness): a record of a layer above the enter point's was inserted; it
\* is linked at the layers of the old enter point only.
C31_LinkedUpToOldTop ==
    /\ last.op = "add_node"
    /\ last.res = "True"
    /\ enter_point = last.node
    /\ layer[last.node] = 1
    /\ \E r \in live : layer[r] = 0 /\ r \in neighbors[last.node][0]
    /\ neighbors[last.node][1] = {}

\* The last call was a call of _select_neighbors_simple on its own.
Selected == last.op = "_select_neighbors_simple"

\* C32: simple selection returns exactly min(M, |candidates|) records of the
\* candidate set, none of them farther from the base than a candidate left
\* out, for every M >= 0 (M = 0 gives the empty result) and for both a spatial
\* and a similarity metric.
C32_SimpleReturnsMBest ==
    Selected =>
        /\ selection.result \subseteq selection.candidates
        /\ Cardinality(selection.result) =
                (IF selection.M < Cardinality(selection.candidates)
                 THEN selection.M ELSE Cardinality(selection.candidates))
        /\ selection.M = 0 => selection.result = {}
        /\ \A s \in selection.result, t \in selection.candidates \ selection.result :
                AsClose(calculate_similarity(s, last.node), calculate_similarity(t, last.node))

\* The last call was a call of _select_neighbors_heuristics on its own.
HeuristicSelected == last.op = "_select_neighbors_heuristics"

\* C33: heuristic neighbor selection works on a copy of its input: the
\* candidate collection passed in holds the same elements after the call as
\* before, with extend_candidates on or off.
C33_CandidatesKept ==
    HeuristicSelected => selection.left = selection.candidates

\* The working set of the last heuristic selection: its candidates, extended
\* by their neighbors at the layer of the call when extend_candidates is set.
WorkingSet ==
    IF extend_candidates
    THEN selection.candidates
            \cup UNION {neighbors[c][selection.layer] : c \in selection.candidates}
    ELSE selection.candidates
\* The sets of the min(m, |S|) records of S nearest to base.
NearestOf(base, S, m) ==
    {N \in SUBSET S :
        /\ Cardinality(N) = (IF m < Cardinality(S) THEN m ELSE Cardinality(S))
        /\ \A s \in N, t \in S \ N :
                AsClose(calculate_similarity(s, base), calculate_similarity(t, base))}

\* C35: with keep_pruned_conns enabled, heuristic selection returns exactly
\* the min(M, |W|) records of its working set W that are nearest to the base,
\* the same set simple selection returns on W; with keep_pruned_conns disabled
\* it returns a non-empty subset of that set whenever W is non-empty and
\* M >= 1.
C35_HeuristicAsSimple ==
    HeuristicSelected =>
        /\ selection.err = "none"
        /\ IF keep_pruned_conns
           THEN /\ selection.result \in NearestOf(last.node, WorkingSet, selection.M)
                /\ selection.result \in
                        _select_neighbors_simple(last.node, WorkingSet, selection.M)
           ELSE /\ \E N \in NearestOf(last.node, WorkingSet, selection.M) :
                        selection.result \subseteq N
                /\ (WorkingSet # {} /\ selection.M >= 1) => selection.result # {}

\* C34: after a successful load, for every (page id, layer, neighbor page id)
\* triple stored in the file the two records are linked in both directions at
\* that layer, so the loaded graph is symmetric even when the file lists the
\* edge under only one of its endpoints.
C34_LoadedBothWays ==
    loaded.res = "ok" =>
        \A t \in loaded.links : <<t[3], t[2], t[1]>> \in loaded.links

\* Record x is in a mapping some knn_search returns on the index as the step
\* leaves it.
FoundAfter(x) ==
    \E q \in Records : \E k \in 0..MaxK : \E e \in EfArgs :
        \E out \in knn_results(neighbors', layer', enter_point', q, k, e) :
            \E i \in 1..Len(out.result) : x \in out.result[i].records

C37_PushedOnce ==
    Searched =>
        /\ \A r \in Records : found.pushed[r] <= 1
        /\ \A p1 \in found.pops, p2 \in found.pops : p1.popped = p2.popped => p1 = p2

\* C37 (witness): a search over a cycle of three records: two records that
\* are neighbors of each other and of a third were both pushed and popped.
C37_CycleSearched ==
    /\ Searched
    /\ \E a \in live, b \in live, c \in live :
            /\ a # b /\ b # c /\ a # c
            /\ {b, c} \subseteq neighbors[a][0]
            /\ {a, c} \subseteq neighbors[b][0]
            /\ {a, b} \subseteq neighbors[c][0]
            /\ found.pushed[a] = 1 /\ found.pushed[b] = 1
            /\ \E p1 \in found.pops, p2 \in found.pops : p1.popped = a /\ p2.popped = b
====
